---- MODULE Spec2Model ----
(***************************************************************************)
(* Model of AutomaterializeDaemonStatusTag.tsx: a function component that  *)
(* reads {paused} from the useAutomaterializeDaemonStatus hook and returns *)
(* the element tree  Tooltip > Link > Tag > label.                         *)
(*                                                                         *)
(* An element is a record [type, props, children], as JSX builds it.       *)
(* The state is the status held by the hook, the element returned by the   *)
(* most recent render, and the history of renders.                         *)
(***************************************************************************)
EXTENDS Naturals, Sequences, FiniteSets

\* Number of renders recorded in a behaviour.
MaxRenders == 6

VARIABLES
    status,   \* the object the hook returns: [paused |-> BOOLEAN]
    element,  \* the element returned by the most recent render, Null before the first
    log       \* history: one entry [at, el] per render, at = status.paused at that render

vars == <<status, element, log>>

\* No render has happened yet: the component has returned nothing.
Null == [type |-> "null"]

PausedMessage ==
    "Automation condition evaluation is paused. New materializations will not be triggered by automation conditions."

----------------------------------------------------------------------------
\* The status collaborator.

\* useAutomaterializeDaemonStatus(): the object with the field paused.
useAutomaterializeDaemonStatus == status

\* Mutant: the flag is captured at the first render and reused afterwards.
ReadPausedCached ==
    IF log = <<>> THEN useAutomaterializeDaemonStatus.paused ELSE log[1].at

\* const {paused} = useAutomaterializeDaemonStatus();
ReadPaused == useAutomaterializeDaemonStatus.paused

----------------------------------------------------------------------------
\* The props the component computes from paused.

\* Mutant: the branches of the content ternary are swapped.
TooltipContentSwapped(paused) == IF paused THEN "" ELSE PausedMessage

\* Mutant: the content of the previous render is kept when not paused.
TooltipContentSticky(paused) ==
    IF paused THEN PausedMessage
    ELSE IF element # Null THEN element.props.content ELSE ""

\* content={paused ? '...' : ''}
TooltipContent(paused) == IF paused THEN PausedMessage ELSE ""

\* Mutant: the tooltip may always show.
TooltipCanShowAlways(paused) == TRUE

\* canShow={paused}
TooltipCanShow(paused) == paused

\* Mutant: the target depends on paused.
LinkToByPaused == IF ReadPaused THEN "/health" ELSE "/overview"

\* to="/health"
LinkTo == "/health"

\* Mutant: the style prop is dropped.
LinkStyleDefault == [outline |-> "auto"]

\* style={{outline: 'none'}}
LinkStyle == [outline |-> "none"]

\* Mutant: the branches of the icon ternary are swapped.
TagIconSwapped(paused) == IF paused THEN "toggle_on" ELSE "toggle_off"

\* icon={paused ? 'toggle_off' : 'toggle_on'}
TagIcon(paused) == IF paused THEN "toggle_off" ELSE "toggle_on"

\* Mutant: the intent is success whatever paused is.
TagIntentSuccess(paused) == "success"

\* intent={paused ? 'warning' : 'success'}
TagIntent(paused) == IF paused THEN "warning" ELSE "success"

\* Mutant: the label is "on" whatever paused is.
TagLabelOn(paused) == "Auto-materialize on"

\* {paused ? 'Auto-materialize off' : 'Auto-materialize on'}
TagLabel(paused) == IF paused THEN "Auto-materialize off" ELSE "Auto-materialize on"

----------------------------------------------------------------------------
\* The component function: one call is one render.

AutomaterializeDaemonStatusTag ==
    LET paused == ReadPaused IN
    [type     |-> "Tooltip",
     props    |-> [content |-> TooltipContent(paused),
                   canShow |-> TooltipCanShow(paused)],
     children |->
        [type     |-> "Link",
         props    |-> [to |-> LinkTo, style |-> LinkStyle],
         children |->
            [type     |-> "Tag",
             props    |-> [icon |-> TagIcon(paused), intent |-> TagIntent(paused)],
             children |-> TagLabel(paused)]]]

----------------------------------------------------------------------------
\* Actions.

Init ==
    /\ status \in [paused : BOOLEAN]
    /\ element = Null
    /\ log = <<>>

\* The external status source delivers a value of the flag.
StatusChange(b) ==
    /\ status' = [status EXCEPT !.paused = b]
    /\ UNCHANGED <<element, log>>

\* Mutant: the render resumes the daemon, writing the collaborator's flag.
RenderAndResume ==
    /\ Len(log) < MaxRenders
    /\ element' = AutomaterializeDaemonStatusTag
    /\ log' = Append(log, [at |-> status.paused, el |-> element'])
    /\ status' = [status EXCEPT !.paused = FALSE]

\* The component function is called and its result becomes the output.
Render ==
    /\ Len(log) < MaxRenders
    /\ element' = AutomaterializeDaemonStatusTag
    /\ log' = Append(log, [at |-> status.paused, el |-> element'])
    /\ UNCHANGED status

Next ==
    \/ \E b \in BOOLEAN : StatusChange(b)
    \/ Render

Spec == Init /\ [][Next]_vars

----------------------------------------------------------------------------
\* Reading an element tree.

TooltipOf(el) == el
LinkOf(el) == el.children
TagOf(el) == el.children.children
LabelOf(el) == el.children.children.children

\* The six observable values of an output.
Observed(el) ==
    [label        |-> LabelOf(el),
     icon         |-> TagOf(el).props.icon,
     intent       |-> TagOf(el).props.intent,
     tooltipShown |-> TooltipOf(el).props.canShow,
     tooltipText  |-> TooltipOf(el).props.content,
     link         |-> LinkOf(el).props.to]

OffVariant ==
    [label |-> "Auto-materialize off", icon |-> "toggle_off", intent |-> "warning",
     tooltipShown |-> TRUE, tooltipText |-> PausedMessage, link |-> "/health"]

OnVariant ==
    [label |-> "Auto-materialize on", icon |-> "toggle_on", intent |-> "success",
     tooltipShown |-> FALSE, tooltipText |-> "", link |-> "/health"]

Renders == 1..Len(log)

TypeOK ==
    /\ status \in [paused : BOOLEAN]
    /\ Len(log) <= MaxRenders
    /\ (log = <<>>) <=> (element = Null)
    /\ log # <<>> => element = log[Len(log)].el

----------------------------------------------------------------------------
\* C1: in every render, the label inside the Tag is "Auto-materialize off"
\* if and only if paused was true at that render, and "Auto-materialize on"
\* otherwise.
C1_Label ==
    \A i \in Renders :
        /\ (LabelOf(log[i].el) = "Auto-materialize off") <=> (log[i].at = TRUE)
        /\ (LabelOf(log[i].el) = "Auto-materialize on") <=> (log[i].at = FALSE)

\* Both labels have been rendered.
C1_Witness ==
    \E i, j \in Renders :
        /\ log[i].at /\ LabelOf(log[i].el) = "Auto-materialize off"
        /\ ~log[j].at /\ LabelOf(log[j].el) = "Auto-materialize on"

\* C2: in every render, the Tooltip's canShow equals paused, and its content
\* is the fixed paused message when paused is true and the empty string when
\* paused is false.
C2_Tooltip ==
    \A i \in Renders :
        /\ TooltipOf(log[i].el).props.canShow = log[i].at
        /\ TooltipOf(log[i].el).props.content = IF log[i].at THEN PausedMessage ELSE ""

\* A paused render with the message shown and a running render with none.
C2_Witness ==
    \E i, j \in Renders :
        /\ log[i].at /\ TooltipOf(log[i].el).props.content = PausedMessage
        /\ TooltipOf(log[i].el).props.canShow
        /\ ~log[j].at /\ TooltipOf(log[j].el).props.content = ""
        /\ ~TooltipOf(log[j].el).props.canShow

\* C3: in every render, the Tag's icon is toggle_off when paused is true and
\* toggle_on when paused is false, and no other icon is rendered.
C3_Icon ==
    \A i \in Renders :
        /\ TagOf(log[i].el).props.icon \in {"toggle_off", "toggle_on"}
        /\ log[i].at => TagOf(log[i].el).props.icon = "toggle_off"
        /\ ~log[i].at => TagOf(log[i].el).props.icon = "toggle_on"

\* Both icons have been rendered.
C3_Witness ==
    \E i, j \in Renders :
        /\ log[i].at /\ TagOf(log[i].el).props.icon = "toggle_off"
        /\ ~log[j].at /\ TagOf(log[j].el).props.icon = "toggle_on"

\* C4: in every render, the Tag's intent is warning when paused is true and
\* success when paused is false, and no other intent is rendered.
C4_Intent ==
    \A i \in Renders :
        /\ TagOf(log[i].el).props.intent \in {"warning", "success"}
        /\ log[i].at => TagOf(log[i].el).props.intent = "warning"
        /\ ~log[i].at => TagOf(log[i].el).props.intent = "success"

\* Both intents have been rendered.
C4_Witness ==
    \E i, j \in Renders :
        /\ log[i].at /\ TagOf(log[i].el).props.intent = "warning"
        /\ ~log[j].at /\ TagOf(log[j].el).props.intent = "success"

\* C5: in every reachable state with an output, whatever changes of paused
\* and re-renders came before, the Link's target is the literal path /health,
\* for the current output and for every earlier one.
C5_LinkTarget ==
    /\ element # Null => LinkOf(element).props.to = "/health"
    /\ \A i \in Renders : LinkOf(log[i].el).props.to = "/health"

\* The flag changed between renders, the current output was rendered with a
\* flag other than the present one, and the target is /health.
C5_Witness ==
    /\ Len(log) >= 3
    /\ \E i, j \in Renders : log[i].at # log[j].at
    /\ status.paused # log[Len(log)].at
    /\ LinkOf(element).props.to = "/health"

\* C6: every output is one of the two whole variants, the off variant when
\* paused was true and the on variant when it was false, never a mixture.
C6_WholeVariant ==
    /\ \A i \in Renders :
          /\ Observed(log[i].el) \in {OffVariant, OnVariant}
          /\ Observed(log[i].el) = IF log[i].at THEN OffVariant ELSE OnVariant
    /\ element # Null =>
          /\ ~(TagOf(element).props.icon = "toggle_off"
                 /\ TagOf(element).props.intent = "success")
          /\ ~(TooltipOf(element).props.canShow
                 /\ LabelOf(element) = "Auto-materialize on")

\* Both whole variants have been rendered.
C6_Witness ==
    \E i, j \in Renders :
        /\ log[i].at /\ Observed(log[i].el) = OffVariant
        /\ ~log[j].at /\ Observed(log[j].el) = OnVariant

\* C7: every render step produces the output for the value paused has at
\* that step, and every recorded output is the one for the value paused had
\* when it was rendered, never one for a value seen by an earlier render.
C7_FreshRead ==
    [][log' # log =>
          /\ Observed(element') = IF status.paused THEN OffVariant ELSE OnVariant
          /\ log'[Len(log')].at = status.paused
          /\ log'[Len(log')].el = element']_vars

\* Renders saw paused true, then false, then true, and the last produced the
\* off variant.
C7_Witness ==
    /\ Len(log) >= 3
    /\ log[Len(log) - 2].at /\ ~log[Len(log) - 1].at /\ log[Len(log)].at
    /\ Observed(log[Len(log) - 1].el) = OnVariant
    /\ Observed(element) = OffVariant

\* C8: in every render, for both values of paused, the Link carries the
\* style outline: none, the Tooltip is the root and wraps the Link, and the
\* Link wraps the Tag.
C8_Structure ==
    \A i \in Renders :
        /\ TooltipOf(log[i].el).type = "Tooltip"
        /\ LinkOf(log[i].el).type = "Link"
        /\ TagOf(log[i].el).type = "Tag"
        /\ LinkOf(log[i].el).props.style = [outline |-> "none"]

\* A paused and a running render, both with the nesting and the style.
C8_Witness ==
    \E i, j \in Renders :
        /\ log[i].at /\ ~log[j].at
        /\ \A k \in {i, j} :
              /\ log[k].el.type = "Tooltip"
              /\ log[k].el.children.type = "Link"
              /\ log[k].el.children.children.type = "Tag"
              /\ log[k].el.children.props.style.outline = "none"

\* C9: any two renders that saw the same value of paused produced identical
\* output, however many renders came before and whatever they saw.
C9_Deterministic ==
    \A i, j \in Renders : log[i].at = log[j].at => log[i].el = log[j].el

\* Two renders with the same flag, separated by a render with the other
\* flag, with identical output.
C9_Witness ==
    \E i, j, k \in Renders :
        /\ i < k /\ k < j
        /\ log[i].at = log[j].at /\ log[k].at # log[i].at
        /\ log[i].el = log[j].el /\ log[k].el # log[i].el

\* C10: a render step leaves the collaborator's status unchanged, and a step
\* that changes the status is not a render.
C10_RenderReadsOnly ==
    [][/\ log' # log => status' = status
       /\ status' # status => (log' = log /\ element' = element)]_vars

\* Renders happened while paused was true, and paused is still true.
C10_Witness ==
    /\ Len(log) >= 2
    /\ \A i \in Renders : log[i].at
    /\ status.paused

====
